---- MODULE Spec2Model ----
(***************************************************************************)
(* Model of guild/plugins/skopt.py: the skopt operation catalog            *)
(* (_skopt_opdefs, _apply_opdef_defaults), the flag encoder                *)
(* (encode_flag_for_optimizer, _encode_function) and the alias resolver    *)
(* (SkoptPlugin.resolve_model_op).                                         *)
(*                                                                         *)
(* Python objects are tagged records.  A str that the encoder formats is a *)
(* sequence of one-character strings (PyStr), so that formatting, joining  *)
(* and splitting are computed; names, keys and catalog texts, which the    *)
(* code only compares or stores, are TLA+ strings (PyText).                *)
(***************************************************************************)
EXTENDS Integers, Sequences, FiniteSets, TLC

\* flagdefObj: the FlagDef object the host holds and passes to the encoder
\* opdefsObj:  the operation-definition dict the host holds (the argument of
\*             _apply_opdef_defaults, or the dict _skopt_opdefs returned)
\* last:       the latest call: function, arguments, value returned (the
\*             dict _skopt_opdefs returned is the object now in opdefsObj,
\*             and `last` names it instead of copying it)
VARIABLES flagdefObj, opdefsObj, last

vars == <<flagdefObj, opdefsObj, last>>

(***************************************************************************)
(* Bounds of the explored inputs.                                          *)
(***************************************************************************)
MaxNum == 0
MaxChoices == 2

(***************************************************************************)
(* Python values.                                                          *)
(***************************************************************************)
PyNone == [t |-> "none"]
PyBool(b) == [t |-> "bool", b |-> b]
PyInt(n) == [t |-> "int", n |-> n]
\* a decimal float m * 10^-e with e >= 1 digits after the point:
\* PyFloat(3, 1) is 0.3 and PyFloat(196, 2) is 1.96
PyFloat(m, e) == [t |-> "float", m |-> m, e |-> e]
PyStr(cs) == [t |-> "str", s |-> cs]
PyText(s) == [t |-> "str", text |-> s]
PyList(xs) == [t |-> "list", items |-> xs]
PyTuple(xs) == [t |-> "tuple", items |-> xs]
PyDict(f) == [t |-> "dict", d |-> f]
AssertionError == [t |-> "fault", exc |-> "AssertionError"]

\* Python truth value of an object (`if x:`, `x or y`)
Truthy(v) ==
  CASE v.t = "none" -> FALSE
    [] v.t = "bool" -> v.b
    [] v.t = "int" -> v.n # 0
    [] v.t = "float" -> v.m # 0
    [] v.t = "str" -> Len(v.s) > 0
    [] v.t = "list" -> Len(v.items) > 0
    [] v.t = "dict" -> DOMAIN v.d # {}
    [] OTHER -> TRUE

\* str.join
RECURSIVE Join(_, _)
Join(sep, parts) ==
  IF Len(parts) = 0 THEN <<>>
  ELSE IF Len(parts) = 1 THEN parts[1]
  ELSE parts[1] \o sep \o Join(sep, Tail(parts))

(***************************************************************************)
(* flag_util.encode_flag_val: the canonical string form of a typed value.  *)
(***************************************************************************)
Digit(d) == <<"0", "1", "2", "3", "4", "5", "6", "7", "8", "9">>[d + 1]

RECURSIVE NatToStr(_)
NatToStr(n) ==
  IF n < 10 THEN <<Digit(n)>> ELSE NatToStr(n \div 10) \o <<Digit(n % 10)>>

IntToStr(n) == IF n < 0 THEN <<"-">> \o NatToStr(-n) ELSE NatToStr(n)

RECURSIVE Pow10(_)
Pow10(e) == IF e = 0 THEN 1 ELSE 10 * Pow10(e - 1)

\* the e digits of n, zero-padded on the left
RECURSIVE FracDigits(_, _)
FracDigits(n, e) ==
  IF e = 0 THEN <<>> ELSE FracDigits(n \div 10, e - 1) \o <<Digit(n % 10)>>

encode_flag_val(v) ==
  CASE v.t = "none" -> <<"n", "u", "l", "l">>
    [] v.t = "bool" -> IF v.b THEN <<"y", "e", "s">> ELSE <<"n", "o">>
    [] v.t = "int" -> IntToStr(v.n)
    [] v.t = "float" ->
         NatToStr(v.m \div Pow10(v.e)) \o <<".">>
           \o FracDigits(v.m % Pow10(v.e), v.e)
    [] v.t = "str" -> v.s

(***************************************************************************)
(* Flag definitions (the attributes of a FlagDef that the encoder reads).  *)
(***************************************************************************)
LCB == <<"L", "C", "B">>
uniform == <<"u", "n", "i", "f", "o", "r", "m">>
loguniform == <<"l", "o", "g", "-", "u", "n", "i", "f", "o", "r", "m">>

ChoicePool ==
  { [value |-> PyStr(LCB), description |-> "Lower confidence bound"],
    [value |-> PyInt(0), description |-> ""] }

RECURSIVE SeqsUpTo(_, _)
SeqsUpTo(S, n) ==
  IF n = 0 THEN {<<>>}
  ELSE LET shorter == SeqsUpTo(S, n - 1)
       IN shorter \cup {Append(q, x) : q \in shorter, x \in S}

ChoiceLists == {PyList(q) : q \in SeqsUpTo(ChoicePool, MaxChoices)}

BoundVals == {PyInt(n) : n \in 0..MaxNum} \cup {PyFloat(10, 1)}

FlagDefs ==
  [choices : {PyNone} \cup ChoiceLists,
   min : {PyNone} \cup BoundVals,
   max : {PyNone} \cup BoundVals,
   distribution : {PyNone, PyStr(<<>>), PyStr(loguniform)}]

FlagVals ==
  {PyNone, PyBool(FALSE), PyBool(TRUE), PyFloat(3, 1), PyStr(<<>>)}
    \cup {PyInt(n) : n \in 0..MaxNum}

(***************************************************************************)
(* Flag encoders.  Each returns the value returned (ret) and the state of  *)
(* the flagdef object after the call (flagdef): the code receives a        *)
(* reference and assigns to none of its attributes.                        *)
(***************************************************************************)
\* the assert of line 228 left out
EncodeFunctionNoAssert(flagdef, val) ==
  LET func_name ==
        IF Truthy(flagdef.distribution) THEN flagdef.distribution.s ELSE uniform
      low == encode_flag_val(flagdef.min)
      high == encode_flag_val(flagdef.max)
      args == IF val # PyNone THEN <<low, high, encode_flag_val(val)>>
              ELSE <<low, high>>
  IN [ret |-> PyStr(func_name \o <<"[">> \o Join(<<":">>, args) \o <<"]">>),
      flagdef |-> flagdef]

\* `if val:` in place of `if val is not None:`
EncodeFunctionTruthyVal(flagdef, val) ==
  IF ~(flagdef.min # PyNone /\ flagdef.max # PyNone)
  THEN [ret |-> AssertionError, flagdef |-> flagdef]
  ELSE
    LET func_name ==
          IF Truthy(flagdef.distribution) THEN flagdef.distribution.s ELSE uniform
        low == encode_flag_val(flagdef.min)
        high == encode_flag_val(flagdef.max)
        args == IF Truthy(val) THEN <<low, high, encode_flag_val(val)>>
                ELSE <<low, high>>
    IN [ret |-> PyStr(func_name \o <<"[">> \o Join(<<":">>, args) \o <<"]">>),
        flagdef |-> flagdef]

\* the resolved distribution name written back to the flagdef
EncodeFunctionStoresDistribution(flagdef, val) ==
  IF ~(flagdef.min # PyNone /\ flagdef.max # PyNone)
  THEN [ret |-> AssertionError, flagdef |-> flagdef]
  ELSE
    LET func_name ==
          IF Truthy(flagdef.distribution) THEN flagdef.distribution.s ELSE uniform
        low == encode_flag_val(flagdef.min)
        high == encode_flag_val(flagdef.max)
        args == IF val # PyNone THEN <<low, high, encode_flag_val(val)>>
                ELSE <<low, high>>
    IN [ret |-> PyStr(func_name \o <<"[">> \o Join(<<":">>, args) \o <<"]">>),
        flagdef |-> [flagdef EXCEPT !.distribution = PyStr(func_name)]]

_encode_function(flagdef, val) ==
  IF ~(flagdef.min # PyNone /\ flagdef.max # PyNone)
  THEN [ret |-> AssertionError, flagdef |-> flagdef]
  ELSE
    LET func_name ==
          IF Truthy(flagdef.distribution) THEN flagdef.distribution.s ELSE uniform
        low == encode_flag_val(flagdef.min)
        high == encode_flag_val(flagdef.max)
        args == IF val # PyNone THEN <<low, high, encode_flag_val(val)>>
                ELSE <<low, high>>
    IN [ret |-> PyStr(func_name \o <<"[">> \o Join(<<":">>, args) \o <<"]">>),
        flagdef |-> flagdef]

\* [c.value for c in flagdef.choices]
RECURSIVE ChoiceValues(_)
ChoiceValues(cs) ==
  IF Len(cs) = 0 THEN <<>> ELSE <<Head(cs).value>> \o ChoiceValues(Tail(cs))

\* the bounds test placed before the choices test
EncodeBoundsBeforeChoices(val, flagdef) ==
  IF flagdef.min # PyNone /\ flagdef.max # PyNone
  THEN _encode_function(flagdef, val)
  ELSE IF Truthy(flagdef.choices)
  THEN [ret |-> PyList(ChoiceValues(flagdef.choices.items)), flagdef |-> flagdef]
  ELSE [ret |-> val, flagdef |-> flagdef]

\* `or` in place of `and` in the bounds test
EncodeEitherBound(val, flagdef) ==
  IF Truthy(flagdef.choices)
  THEN [ret |-> PyList(ChoiceValues(flagdef.choices.items)), flagdef |-> flagdef]
  ELSE IF flagdef.min # PyNone \/ flagdef.max # PyNone
  THEN _encode_function(flagdef, val)
  ELSE [ret |-> val, flagdef |-> flagdef]

encode_flag_for_optimizer(val, flagdef) ==
  IF Truthy(flagdef.choices)
  THEN [ret |-> PyList(ChoiceValues(flagdef.choices.items)), flagdef |-> flagdef]
  ELSE IF flagdef.min # PyNone /\ flagdef.max # PyNone
  THEN _encode_function(flagdef, val)
  ELSE [ret |-> val, flagdef |-> flagdef]

(***************************************************************************)
(* yaml.safe_load of the catalog declaration.  A node is a scalar (its     *)
(* folded text), a mapping or a sequence; the loader resolves each plain   *)
(* scalar by the YAML 1.1 rules (bool, int, float, else str).              *)
(***************************************************************************)
Scalar(text) == [y |-> "scalar", text |-> text]
Mapping(m) == [y |-> "map", m |-> m]
Sequence(items) == [y |-> "seq", items |-> items]

YamlTrue == {"yes", "Yes", "YES", "true", "True", "TRUE", "on", "On", "ON"}
YamlFalse == {"no", "No", "NO", "false", "False", "FALSE", "off", "Off", "OFF"}
\* the numeric plain scalars of the declaration and their values
YamlInts == ("3" :> PyInt(3))
YamlFloats == ("1.96" :> PyFloat(196, 2)) @@ ("0.05" :> PyFloat(5, 2))

resolve_scalar(text) ==
  IF text \in YamlTrue THEN PyBool(TRUE)
  ELSE IF text \in YamlFalse THEN PyBool(FALSE)
  ELSE IF text \in DOMAIN YamlInts THEN YamlInts[text]
  ELSE IF text \in DOMAIN YamlFloats THEN YamlFloats[text]
  ELSE PyText(text)

RECURSIVE safe_load(_)
safe_load(node) ==
  CASE node.y = "scalar" -> resolve_scalar(node.text)
    [] node.y = "map" -> PyDict([k \in DOMAIN node.m |-> safe_load(node.m[k])])
    [] node.y = "seq" ->
         PyList([i \in 1..Len(node.items) |-> safe_load(node.items[i])])

Choice(value, description) ==
  Mapping(("value" :> Scalar(value)) @@ ("description" :> Scalar(description)))

RandomStartsFlag ==
  Mapping(("description" :>
             Scalar("Number of trials using random values before optimizing"))
          @@ ("default" :> Scalar("3"))
          @@ ("type" :> Scalar("int")))

KappaFlag ==
  Mapping(("description" :>
             Scalar("Degree to which variance in the predicted values is taken into account"))
          @@ ("default" :> Scalar("1.96"))
          @@ ("type" :> Scalar("float")))

XiFlag ==
  Mapping(("description" :>
             Scalar("Improvement to seek over the previous best values"))
          @@ ("default" :> Scalar("0.05"))
          @@ ("type" :> Scalar("float")))

PrevTrialsFlag ==
  Mapping(("description" :>
             Scalar("Method used to select previous trials for suggestions"))
          @@ ("default" :> Scalar("batch"))
          @@ ("choices" :> Sequence(<<
                Choice("batch", "Use trials generated by the batch run"),
                Choice("sourcecode", "Use trials with the same source code"),
                Choice("operation", "Use trials with the same operation name")>>)))

AcqFuncFlag ==
  Mapping(("description" :>
             Scalar("Function to minimize over the gaussian prior"))
          @@ ("default" :> Scalar("gp_hedge"))
          @@ ("choices" :> Sequence(<<
                Choice("LCB", "Lower confidence bound"),
                Choice("EI", "Negative expected improvement"),
                Choice("PI", "Negative probability of improvement"),
                Choice("gp_hedge",
                       "Probabilistically use LCB, EI, or PI at every iteration"),
                Choice("EIps", "Negative expected improvement per second"),
                Choice("PIps",
                       "Negative probability of improvement per second")>>)))

NoiseFlag ==
  Mapping(("description" :>
             Scalar("Level of noise associated with the objective\nUse 'gaussian' if the objective returns noisy observations, otherwise specify the expected variance of the noise."))
          @@ ("default" :> Scalar("gaussian")))

TreeFlags ==
  Mapping(("random-starts" :> RandomStartsFlag)
          @@ ("kappa" :> KappaFlag)
          @@ ("xi" :> XiFlag)
          @@ ("prev-trials" :> PrevTrialsFlag))

Declaration ==
  Mapping(
    ("random" :> Mapping(
        ("description" :>
           Scalar("Batch processor supporting random flag value generation."))
        @@ ("exec" :> Scalar("${python_exe} -um guild.plugins.random_main"))
        @@ ("delete-on-success" :> Scalar("yes"))
        @@ ("can-stage-trials" :> Scalar("yes"))))
    @@ ("gp" :> Mapping(
        ("description" :>
           Scalar("Bayesian optimizer using Gaussian processes.\nRefer to https://scikit-optimize.github.io/#skopt.gp_minimize for details on this algorithm and its flags."))
        @@ ("exec" :> Scalar("${python_exe} -um guild.plugins.skopt_gp_main"))
        @@ ("flags" :> Mapping(
              ("random-starts" :> RandomStartsFlag)
              @@ ("acq-func" :> AcqFuncFlag)
              @@ ("kappa" :> KappaFlag)
              @@ ("xi" :> XiFlag)
              @@ ("noise" :> NoiseFlag)
              @@ ("prev-trials" :> PrevTrialsFlag)))))
    @@ ("forest" :> Mapping(
        ("description" :>
           Scalar("Sequential optimization using decision trees.\nRefer to https://scikit-optimize.github.io/#skopt.forest_minimize for details on this algorithm and its flags."))
        @@ ("exec" :> Scalar("${python_exe} -um guild.plugins.skopt_forest_main"))
        @@ ("flags" :> TreeFlags)))
    @@ ("gbrt" :> Mapping(
        ("description" :>
           Scalar("Sequential optimization using gradient boosted regression trees.\nRefer to https://scikit-optimize.github.io/#skopt.gbrt_minimize for details on this algorithm and its flags."))
        @@ ("exec" :> Scalar("${python_exe} -um guild.plugins.skopt_gbrt_main"))
        @@ ("flags" :> TreeFlags))))

(***************************************************************************)
(* Default filling.                                                        *)
(***************************************************************************)
defaults ==
  ("flag-encoder" :> PyText("guild.plugins.skopt:encode_flag_for_optimizer"))
  @@ ("default-max-trials" :> PyInt(20))
  @@ ("delete-on-success" :> PyBool(FALSE))
  @@ ("can-stage-trials" :> PyBool(FALSE))
  @@ ("env" :> PyDict("NO_OP_INTERRUPTED_MSG" :> PyText("1")))

\* opdef.update(defaults): every default, declared or not
ApplyDefaultsOverwriting(opdefs) ==
  PyDict([op \in DOMAIN opdefs.d |->
    PyDict([name \in DOMAIN opdefs.d[op].d \cup DOMAIN defaults |->
      IF name \in DOMAIN defaults THEN defaults[name]
      ELSE opdefs.d[op].d[name]])])

\* the defaults reach the operations that declare none of them only
ApplyDefaultsSkippingDeclared(opdefs) ==
  PyDict([op \in DOMAIN opdefs.d |->
    IF DOMAIN opdefs.d[op].d \cap DOMAIN defaults # {} THEN opdefs.d[op]
    ELSE PyDict([name \in DOMAIN opdefs.d[op].d \cup DOMAIN defaults |->
           IF name \in DOMAIN opdefs.d[op].d THEN opdefs.d[op].d[name]
           ELSE defaults[name]])])

\* a stray `break`: each call fills only the first missing default
ApplyDefaultsFirstMissingOnly(opdefs) ==
  LET order == <<"flag-encoder", "default-max-trials", "delete-on-success",
                 "can-stage-trials", "env">>
      missing(opdef) == {i \in 1..Len(order) : order[i] \notin DOMAIN opdef.d}
      first(opdef) == order[CHOOSE i \in missing(opdef) :
                              \A j \in missing(opdef) : i <= j]
  IN PyDict([op \in DOMAIN opdefs.d |->
       IF missing(opdefs.d[op]) = {} THEN opdefs.d[op]
       ELSE PyDict([name \in DOMAIN opdefs.d[op].d \cup {first(opdefs.d[op])} |->
              IF name \in DOMAIN opdefs.d[op].d THEN opdefs.d[op].d[name]
              ELSE defaults[name]])])

\* the dict `opdefs` after the call (it is updated in place)
_apply_opdef_defaults(opdefs) ==
  PyDict([op \in DOMAIN opdefs.d |->
    PyDict([name \in DOMAIN opdefs.d[op].d \cup DOMAIN defaults |->
      IF name \in DOMAIN opdefs.d[op].d THEN opdefs.d[op].d[name]
      ELSE defaults[name]])])

_skopt_opdefs == _apply_opdef_defaults(safe_load(Declaration))

SkoptModelProxy ==
  [t |-> "SkoptModelProxy",
   name |-> "skopt",
   reference |-> <<"builtin", "guildai", "guild.__version__", "skopt">>,
   modeldef |-> [name |-> "skopt",
                 data |-> [operations |-> _skopt_opdefs],
                 src |-> "<SkoptModelProxy>"]]

(***************************************************************************)
(* Plugin.                                                                 *)
(***************************************************************************)
\* the "skopt:" prefix stripped before matching: every alias gets a
\* namespaced form
ResolveAnyNamespaced(opspec) ==
  IF opspec \in {"random", "skopt:random"}
  THEN PyTuple(<<SkoptModelProxy, PyText("random")>>)
  ELSE IF opspec \in {"gp", "skopt:gp", "bayesian", "gaussian",
                      "skopt:bayesian", "skopt:gaussian"}
  THEN PyTuple(<<SkoptModelProxy, PyText("gp")>>)
  ELSE IF opspec \in {"forest", "skopt:forest"}
  THEN PyTuple(<<SkoptModelProxy, PyText("forest")>>)
  ELSE IF opspec \in {"gbrt", "skopt:gbrt"}
  THEN PyTuple(<<SkoptModelProxy, PyText("gbrt")>>)
  ELSE PyNone

\* an operation name that is no key of the catalog
ResolveMisspelledName(opspec) ==
  IF opspec \in {"random", "skopt:random"}
  THEN PyTuple(<<SkoptModelProxy, PyText("random")>>)
  ELSE IF opspec \in {"gp", "skopt:gp", "bayesian", "gaussian"}
  THEN PyTuple(<<SkoptModelProxy, PyText("gp")>>)
  ELSE IF opspec \in {"forest", "skopt:forest"}
  THEN PyTuple(<<SkoptModelProxy, PyText("forest")>>)
  ELSE IF opspec \in {"gbrt", "skopt:gbrt"}
  THEN PyTuple(<<SkoptModelProxy, PyText("gbt")>>)
  ELSE PyNone

resolve_model_op(opspec) ==
  IF opspec \in {"random", "skopt:random"}
  THEN PyTuple(<<SkoptModelProxy, PyText("random")>>)
  ELSE IF opspec \in {"gp", "skopt:gp", "bayesian", "gaussian"}
  THEN PyTuple(<<SkoptModelProxy, PyText("gp")>>)
  ELSE IF opspec \in {"forest", "skopt:forest"}
  THEN PyTuple(<<SkoptModelProxy, PyText("forest")>>)
  ELSE IF opspec \in {"gbrt", "skopt:gbrt"}
  THEN PyTuple(<<SkoptModelProxy, PyText("gbrt")>>)
  ELSE PyNone

(***************************************************************************)
(* Inputs of the calls.                                                    *)
(***************************************************************************)
OpSpecs ==
  {"random", "skopt:random", "gp", "skopt:gp", "bayesian", "gaussian",
   "forest", "skopt:forest", "gbrt", "skopt:gbrt",
   "", "GP", "skopt:bayesian", "nonexistent"}

\* what a declaration may set in an operation: the five defaulted fields,
\* each with a value other than its default, and a field with no default
Declared ==
  ("flag-encoder" :> PyText("my.plugin:encode"))
  @@ ("default-max-trials" :> PyInt(5))
  @@ ("delete-on-success" :> PyBool(TRUE))
  @@ ("can-stage-trials" :> PyBool(TRUE))
  @@ ("env" :> PyDict("GUILD_HOME" :> PyText("/tmp")))
  @@ ("exec" :> PyText("${python_exe} -um train"))

EmptyOpdefs == PyDict(<<>>)

\* the empty dict and the dicts of one operation declaring any subset of
\* Declared (the built catalog, of four operations, is reached by SkoptOpdefs)

TestOpdefs ==
  {EmptyOpdefs} \cup
  {PyDict("op" :> PyDict([name \in names |-> Declared[name]])) :
     names \in SUBSET DOMAIN Declared}

PlainFlagDef ==
  [choices |-> PyNone, min |-> PyNone, max |-> PyNone, distribution |-> PyNone]

(***************************************************************************)
(* Calls.                                                                  *)
(***************************************************************************)
NoCall == [op |-> "none"]

Encode(val) ==
  LET r == encode_flag_for_optimizer(val, flagdefObj)
  IN /\ last' = [op |-> "encode_flag_for_optimizer", val |-> val,
                 flagdef |-> flagdefObj, ret |-> r.ret]
     /\ flagdefObj' = r.flagdef
     /\ UNCHANGED opdefsObj

EncodeFunction(val) ==
  LET r == _encode_function(flagdefObj, val)
  IN /\ last' = [op |-> "_encode_function", val |-> val,
                 flagdef |-> flagdefObj, ret |-> r.ret]
     /\ flagdefObj' = r.flagdef
     /\ UNCHANGED opdefsObj

\* opdefs = _skopt_opdefs()
SkoptOpdefs ==
  /\ last' = [op |-> "_skopt_opdefs", ret |-> "opdefsObj"]
  /\ opdefsObj' = _skopt_opdefs
  /\ UNCHANGED flagdefObj

\* _apply_opdef_defaults(opdefs)
ApplyOpdefDefaults ==
  /\ last' = [op |-> "_apply_opdef_defaults", opdefs |-> opdefsObj,
              ret |-> PyNone]
  /\ opdefsObj' = _apply_opdef_defaults(opdefsObj)
  /\ UNCHANGED flagdefObj

\* SkoptPlugin().resolve_model_op(opspec)
Resolve(opspec) ==
  LET r == resolve_model_op(opspec)
  IN /\ last' = [op |-> "resolve_model_op", opspec |-> opspec, ret |-> r]
     /\ UNCHANGED <<flagdefObj, opdefsObj>>

\* The host holds any flag definition and any opdefs dict.  No function reads
\* both objects, so the two are varied one at a time.
Init ==
  /\ flagdefObj \in FlagDefs
  /\ opdefsObj \in TestOpdefs
  /\ flagdefObj = PlainFlagDef \/ opdefsObj = EmptyOpdefs
  /\ last = NoCall

Next ==
  \/ \E val \in FlagVals : Encode(val)
  \/ \E val \in FlagVals : EncodeFunction(val)
  \/ SkoptOpdefs
  \/ ApplyOpdefDefaults
  \/ \E opspec \in OpSpecs : Resolve(opspec)

Spec == Init /\ [][Next]_vars

(***************************************************************************)
(* Properties.                                                             *)
(***************************************************************************)
IsEncode == last.op = "encode_flag_for_optimizer"
IsEncodeFunction == last.op = "_encode_function"
IsApply == last.op = "_apply_opdef_defaults"
IsBuild == last.op = "_skopt_opdefs"
IsMatch == last.op = "resolve_model_op" /\ last.ret # PyNone

HasChoices(fd) == fd.choices # PyNone /\ Len(fd.choices.items) > 0
CompleteBounds(fd) == fd.min # PyNone /\ fd.max # PyNone
PartialBounds(fd) == (fd.min = PyNone) # (fd.max = PyNone)

RECURSIVE CountChar(_, _)
CountChar(c, s) ==
  IF Len(s) = 0 THEN 0
  ELSE (IF Head(s) = c THEN 1 ELSE 0) + CountChar(c, Tail(s))

\* C1: for a flag definition with non-empty choices, encode_flag_for_optimizer
\* returns the list of the choices' raw values in declared order, whatever
\* min, max, distribution and the value argument are.
C1_ChoicesTakePrecedence ==
  (IsEncode /\ HasChoices(last.flagdef)) =>
    LET cs == last.flagdef.choices.items
    IN /\ last.ret.t = "list"
       /\ Len(last.ret.items) = Len(cs)
       /\ \A i \in 1..Len(cs) : last.ret.items[i] = cs[i].value

C1_Witness ==
  /\ IsEncode
  /\ HasChoices(last.flagdef)
  /\ Len(last.flagdef.choices.items) = 2
  /\ last.flagdef.choices.items[1].value = PyStr(LCB)
  /\ last.flagdef.choices.items[2].value = PyInt(0)
  /\ CompleteBounds(last.flagdef)
  /\ last.val # PyNone
  /\ last.ret = PyList(<<PyStr(LCB), PyInt(0)>>)

\* C2: for a flag definition with min and max present and no (or empty)
\* choices, encode_flag_for_optimizer returns "<func>[<low>:<high>]" when the
\* value is None and "<func>[<low>:<high>:<initial>]" otherwise, func being
\* the distribution, or "uniform" when it is unset (None or empty); the
\* bracket holds three colon-delimited segments iff a value was supplied
\* (0 and False included), and two otherwise.
C2_FunctionDescriptor ==
  (IsEncode /\ ~HasChoices(last.flagdef) /\ CompleteBounds(last.flagdef)) =>
    LET fd == last.flagdef
        func == IF fd.distribution = PyNone \/ fd.distribution.s = <<>>
                THEN uniform ELSE fd.distribution.s
        low == encode_flag_val(fd.min)
        high == encode_flag_val(fd.max)
        two == func \o <<"[">> \o low \o <<":">> \o high \o <<"]">>
        three == func \o <<"[">> \o low \o <<":">> \o high \o <<":">>
                   \o encode_flag_val(last.val) \o <<"]">>
    IN /\ last.ret.t = "str"
       /\ last.val = PyNone => last.ret.s = two
       /\ last.val # PyNone => last.ret.s = three
       /\ (CountChar(":", last.ret.s) + 1 >= 3) <=> (last.val # PyNone)
       /\ CountChar(":", last.ret.s) + 1 >= 2

C2_Witness ==
  /\ IsEncode
  /\ last.flagdef.choices = PyList(<<>>)
  /\ last.flagdef.min = PyInt(0)
  /\ last.flagdef.max = PyFloat(10, 1)
  /\ last.flagdef.distribution = PyNone
  /\ last.val = PyInt(0)
  /\ last.ret = PyStr(<<"u", "n", "i", "f", "o", "r", "m", "[",
                        "0", ":", "1", ".", "0", ":", "0", "]">>)

\* C3: for a flag definition with no (or empty) choices and without both min
\* and max, encode_flag_for_optimizer returns the value itself (None
\* included), and encoding the result again returns it again.
C3_PassThrough ==
  (IsEncode /\ ~HasChoices(last.flagdef) /\ ~CompleteBounds(last.flagdef)) =>
    /\ last.ret = last.val
    /\ encode_flag_for_optimizer(last.ret, last.flagdef).ret = last.ret

C3_Witness ==
  /\ IsEncode
  /\ last.flagdef.choices = PyNone
  /\ last.flagdef.min = PyInt(0)
  /\ last.flagdef.max = PyNone
  /\ last.val = PyBool(FALSE)
  /\ last.ret = PyBool(FALSE)

\* C4 (as claimed): encoding a flag definition with exactly one of min and max
\* present and no choices ends in an assertion fault and returns no value.
C4_PartialBoundsFault ==
  (IsEncode /\ ~HasChoices(last.flagdef) /\ PartialBounds(last.flagdef)) =>
    last.ret = AssertionError

\* C4 (amended): _encode_function called with exactly one of min and max
\* present ends in an AssertionError and returns no value;
\* encode_flag_for_optimizer does not call it for such a flag definition and,
\* when there are no choices, returns the value unchanged, with no fault.
C4_AssertOnlyInEncodeFunction ==
  /\ (IsEncodeFunction /\ PartialBounds(last.flagdef)) =>
       last.ret = AssertionError
  /\ (IsEncode /\ ~HasChoices(last.flagdef) /\ PartialBounds(last.flagdef)) =>
       (last.ret = last.val /\ last.ret.t # "fault")

C4_Witness ==
  /\ IsEncodeFunction
  /\ last.flagdef.min = PyNone
  /\ last.flagdef.max = PyInt(0)
  /\ last.ret = AssertionError

(***************************************************************************)
(* Catalog properties.                                                     *)
(***************************************************************************)
CatalogOps == {"random", "gp", "forest", "gbrt"}
DefaultedFields ==
  {"flag-encoder", "default-max-trials", "delete-on-success",
   "can-stage-trials", "env"}

\* the catalog carried by the proxy a matching resolve_model_op returned
ProxyCatalog == last.ret.items[1].modeldef.data.operations

FullyDefaulted(catalog) ==
  /\ DOMAIN catalog.d = CatalogOps
  /\ \A op \in CatalogOps :
       LET opdef == catalog.d[op].d
           declared == DOMAIN Declaration.m[op].m
           undeclared(name) == name \notin declared
       IN /\ DefaultedFields \subseteq DOMAIN opdef
          /\ undeclared("default-max-trials") =>
               opdef["default-max-trials"] = PyInt(20)
          /\ undeclared("delete-on-success") =>
               opdef["delete-on-success"] = PyBool(FALSE)
          /\ undeclared("can-stage-trials") =>
               opdef["can-stage-trials"] = PyBool(FALSE)
          /\ undeclared("env") =>
               opdef["env"] = PyDict("NO_OP_INTERRUPTED_MSG" :> PyText("1"))

\* C5: every operation of a catalog built by _skopt_opdefs (random, gp,
\* forest, gbrt) carries the five defaulted fields, and each one the
\* declaration did not set has the global default value.
C5_CatalogFullyDefaulted ==
  /\ IsBuild => FullyDefaulted(opdefsObj)
  /\ IsMatch => FullyDefaulted(ProxyCatalog)

C5_Witness ==
  /\ IsBuild
  /\ opdefsObj.d["gp"].d["default-max-trials"] = PyInt(20)
  /\ opdefsObj.d["random"].d["env"]
       = PyDict("NO_OP_INTERRUPTED_MSG" :> PyText("1"))
  /\ "flag-encoder" \in DOMAIN opdefsObj.d["gbrt"].d

\* C6: _apply_opdef_defaults leaves every field that was present before it
\* ran with the value it had (defaulted field or not), and the built
\* `random` operation keeps delete-on-success = true, can-stage-trials = true.
C6_DeclaredFieldsKept ==
  /\ IsApply =>
       \A op \in DOMAIN last.opdefs.d :
         /\ op \in DOMAIN opdefsObj.d
         /\ \A name \in DOMAIN last.opdefs.d[op].d :
              /\ name \in DOMAIN opdefsObj.d[op].d
              /\ opdefsObj.d[op].d[name] = last.opdefs.d[op].d[name]
  /\ IsBuild =>
       /\ opdefsObj.d["random"].d["delete-on-success"] = PyBool(TRUE)
       /\ opdefsObj.d["random"].d["can-stage-trials"] = PyBool(TRUE)

C6_Witness ==
  /\ IsApply
  /\ DOMAIN last.opdefs.d = {"op"}
  /\ DOMAIN last.opdefs.d["op"].d = {"delete-on-success", "exec"}
  /\ opdefsObj.d["op"].d["delete-on-success"] = PyBool(TRUE)
  /\ opdefsObj.d["op"].d["can-stage-trials"] = PyBool(FALSE)
  /\ opdefsObj.d["op"].d["exec"] = PyText("${python_exe} -um train")

HasAllDefaulted(catalog) ==
  \A op \in DOMAIN catalog.d : DefaultedFields \subseteq DOMAIN catalog.d[op].d

\* C7: catalog construction is idempotent: a catalog built later equals the
\* catalog the host already holds from an earlier build, and applying
\* _apply_opdef_defaults again to a built (or otherwise fully defaulted)
\* catalog changes no field.
C7_ConstructionIdempotent ==
  /\ (IsMatch /\ DOMAIN opdefsObj.d = CatalogOps) => ProxyCatalog = opdefsObj
  /\ (IsApply /\ DOMAIN last.opdefs.d = CatalogOps) => opdefsObj = last.opdefs
  /\ (IsApply /\ HasAllDefaulted(last.opdefs)) => opdefsObj = last.opdefs

C7_Witness ==
  /\ IsApply
  /\ DOMAIN last.opdefs.d = CatalogOps
  /\ opdefsObj = last.opdefs
  /\ opdefsObj.d["random"].d["delete-on-success"] = PyBool(TRUE)

(***************************************************************************)
(* Resolver properties.                                                    *)
(***************************************************************************)
Aliases ==
  ("random" :> "random") @@ ("skopt:random" :> "random")
  @@ ("gp" :> "gp") @@ ("skopt:gp" :> "gp")
  @@ ("bayesian" :> "gp") @@ ("gaussian" :> "gp")
  @@ ("forest" :> "forest") @@ ("skopt:forest" :> "forest")
  @@ ("gbrt" :> "gbrt") @@ ("skopt:gbrt" :> "gbrt")

\* C8: resolve_model_op maps each recognized alias to its operation name
\* (random, skopt:random -> random; gp, skopt:gp, bayesian, gaussian -> gp;
\* forest, skopt:forest -> forest; gbrt, skopt:gbrt -> gbrt) and every other
\* string (empty, other letter case, skopt:bayesian, ...) to None, never to
\* a fault.
C8_AliasTable ==
  last.op = "resolve_model_op" =>
    /\ last.ret.t \in {"none", "tuple"}
    /\ last.opspec \in DOMAIN Aliases =>
         /\ last.ret.t = "tuple"
         /\ Len(last.ret.items) = 2
         /\ last.ret.items[1].t = "SkoptModelProxy"
         /\ last.ret.items[2] = PyText(Aliases[last.opspec])
    /\ last.opspec \notin DOMAIN Aliases => last.ret = PyNone

C8_Witness ==
  /\ last.op = "resolve_model_op"
  /\ last.opspec = "gaussian"
  /\ last.ret.t = "tuple"
  /\ last.ret.items[2] = PyText("gp")

\* C9: a call of resolve_model_op, encode_flag_for_optimizer or
\* _encode_function leaves the flag definition and the catalog the host holds
\* as they were, and a call repeated with the same arguments returns the same
\* result.
C9_CallsMutateNothing ==
  [][last'.op \in {"resolve_model_op", "encode_flag_for_optimizer",
                   "_encode_function"} =>
       /\ flagdefObj' = flagdefObj
       /\ opdefsObj' = opdefsObj
       /\ (last.op = last'.op /\ last.op = "resolve_model_op"
           /\ last.opspec = last'.opspec) => last'.ret = last.ret
       /\ (last.op = last'.op /\ last.op # "resolve_model_op"
           /\ last.val = last'.val) => last'.ret = last.ret]_vars

C9_Witness ==
  /\ IsMatch
  /\ DOMAIN opdefsObj.d = CatalogOps
  /\ opdefsObj = ProxyCatalog
  /\ CompleteBounds(flagdefObj)
  /\ flagdefObj.distribution = PyNone

\* C10: the operation name a matching resolve_model_op returns is a key of
\* the catalog carried by the returned proxy, and every operation of that
\* catalog is the result of resolving at least one alias.
C10_ResolvedNameInCatalog ==
  IsMatch =>
    /\ last.ret.items[2].text \in DOMAIN ProxyCatalog.d
    /\ \A op \in DOMAIN ProxyCatalog.d :
         \E opspec \in OpSpecs :
           LET r == resolve_model_op(opspec)
           IN r # PyNone /\ r.items[2] = PyText(op)

C10_Witness ==
  /\ IsMatch
  /\ last.opspec = "skopt:gbrt"
  /\ last.ret.items[2].text = "gbrt"
  /\ "gbrt" \in DOMAIN ProxyCatalog.d

====
